---- MODULE Spec2Model ----
(***************************************************************************)
(* Client-side data-synchronisation layer of the operator console:         *)
(* the status aggregator hosted by the dashboard and settings pages, the   *)
(* page loaders of the conversations and leads pages, and the catalog      *)
(* ingestion form.  One page component is mounted per behaviour (`view`).  *)
(***************************************************************************)
EXTENDS Integers, Sequences, FiniteSets, TLC

VARIABLES
    view,         \* which page component this behaviour is about
    life,         \* "init" (rendered, effects not run) | "active" | "torn"
    health,       \* useState<HealthResponse | null>
    stats,        \* useState<StatsResponse | null>
    error,        \* useState<string | null>
    loading,      \* useState<boolean>
    lastRefresh,  \* useState<Date | null>
    timer,        \* TRUE while the setInterval handle is armed
    now,          \* wall clock, in milliseconds since the page was rendered
    calls,        \* the load() invocations so far, with their two fetches
    settled,      \* ids of the load() invocations whose continuation ran, in order
    ev,           \* the kind of the last event handled
    items,        \* useState<T[]> of a list page (with the call it came from)
    total,        \* useState<number> of a list page (with the call it came from)
    page,         \* useState<number> of a list page
    json,         \* useState<string> of the catalog form
    jsonError,    \* useState<string | null> of the catalog form
    result,       \* useState<IngestResponse | null> of an ingestion form
    filePath,     \* useState<string> of the document form
    sourceTag,    \* useState<string> of the document form
    customTag,    \* useState<string> of the document form
    sent,         \* the body of the POST the last event handed to fetch(), if any
    csv,          \* the text of the last leads.csv handed to the browser
    thrown        \* what the fetch of a page load rejected with, if the last event was that

statusVars == <<health, stats, lastRefresh, timer, now>>
pageVars == <<items, total, page, csv, thrown>>
docVars == <<filePath, sourceTag, customTag>>
formVars == <<json, jsonError, result, docVars, sent>>

vars == <<view, life, error, loading, calls, settled, ev, statusVars, pageVars, formVars>>

----------------------------------------------------------------------------
(* Bounds *)

MaxCalls == 2        \* load() invocations per behaviour

----------------------------------------------------------------------------
(* Values *)

None == <<>>
Some(x) == <<x>>
Val(o) == o[1]

INTERVAL_MS == 15000

BACKEND_ERROR == "No se pudo conectar al backend. Verifica NEXT_PUBLIC_API_URL."

StatusViews == {"dashboard", "settings"}

\* the optional `error?: string` of the queue and rag blocks
ErrorFields == {None, Some(""), Some("connection refused")}

\* bodies the backend may answer call r with (req is the provenance of the body)
HealthResponse(r) ==
    {[req |-> r, status |-> st] : st \in {"ok", "error"}}

\* a block that reports an error comes with zeroed counts, a healthy one with
\* its counts; queued stands for the five queue counts, catalog for the two
\* index counts
StatsResponse(r) ==
    {[req |-> r,
      queue |-> [error |-> qe, queued |-> IF qe = None THEN 3 ELSE 0],
      rag |-> [error |-> re, catalog |-> IF re = None THEN 7 ELSE 0]] :
        qe \in ErrorFields, re \in ErrorFields}

Pending == [st |-> "pending", body |-> None]
Rejected(why) == [st |-> "rejected", body |-> Some(why)]
Fulfilled(b) == [st |-> "fulfilled", body |-> Some(b)]

\* fetchHealth: rejects on a transport error and on a non-2xx answer
fetchHealth(r) ==
    {Rejected("network"), Rejected("http")} \cup {Fulfilled(b) : b \in HealthResponse(r)}

\* fetchStats: rejects on a transport error and on a non-2xx answer
fetchStats(r) ==
    {Rejected("network"), Rejected("http")} \cup {Fulfilled(b) : b \in StatsResponse(r)}

\* Promise.all([h, s]): rejected with the first rejection, fulfilled with both
PromiseAll(c) ==
    IF c.h.st = "rejected" \/ c.s.st = "rejected" THEN "rejected"
    ELSE IF c.h.st = "fulfilled" /\ c.s.st = "fulfilled" THEN "fulfilled"
    ELSE "pending"

\* e.message of the TypeError fetch() rejects with when no response arrives;
\* the text is the browser's and differs from one engine to another
TRANSPORT_ERRORS == {"Failed to fetch", "NetworkError when attempting to fetch resource."}

\* res.ok
ResOk(a) == a.status \in 200..299

\* mutant: a setter still writes after the component is unmounted
SetState_AfterUnmount(cur, new) == new

\* a state setter of a component: a no-op once the component is unmounted
SetState(cur, new) == IF life = "torn" THEN cur ELSE new

----------------------------------------------------------------------------
(* Derived status *)

apiOk(h, s) == h # None /\ Val(h).status = "ok"

\* mutant: the queue flag also looks at the rag error
redisOk_Coupled(h, s) ==
    ~(s # None /\ (Val(s).queue.error \notin {None, Some("")}
                    \/ Val(s).rag.error \notin {None, Some("")}))

\* mutant: without a snapshot the queue is reported as failing
redisOk_NeedsSnapshot(h, s) == s # None /\ Val(s).queue.error \in {None, Some("")}

redisOk(h, s) == ~(s # None /\ Val(s).queue.error \notin {None, Some("")})

ragOk(h, s) == ~(s # None /\ Val(s).rag.error \notin {None, Some("")})

\* a ?? b
Coalesce(a, b) == IF a = None THEN b ELSE Val(a)

\* stats?.queue.error, stats?.rag.error
QueueError == IF stats = None THEN None ELSE Val(stats).queue.error
RagError == IF stats = None THEN None ELSE Val(stats).rag.error

\* the block with the badges and cards (dashboard) or the status rows
\* (settings) is rendered
StatusRendered == IF view = "dashboard" THEN ~(loading /\ stats = None) ELSE ~loading

\* the texts a status page shows for the queue: on the dashboard the badge and
\* the value and sub-line of the Redis card, on the settings page the row
QueueTexts ==
    IF view = "dashboard"
    THEN {IF redisOk(health, stats) THEN "Redis conectado" ELSE "Redis error",
          IF redisOk(health, stats) THEN "Online" ELSE "Error",
          Coalesce(QueueError, "conectado")}
    ELSE {IF redisOk(health, stats) THEN "Conectado" ELSE Coalesce(QueueError, "Error")}

\* the texts a status page shows for the knowledge index: on the dashboard
\* the badge, on the settings page the row
RagTexts ==
    IF view = "dashboard"
    THEN {IF ragOk(health, stats) THEN "ChromaDB ok" ELSE "ChromaDB error"}
    ELSE {IF ragOk(health, stats) THEN "Operativo" ELSE Coalesce(RagError, "Error")}

\* the queue counts a status page shows: the dashboard's cards show
\* stats?.queue.queued ?? 0 (and the four other counts alike) once its status
\* block is rendered; the settings page shows none
QueueCounts ==
    IF view = "dashboard" /\ StatusRendered
    THEN {IF stats = None THEN 0 ELSE Val(stats).queue.queued}
    ELSE {}

\* the index counts a status page shows: stats?.rag.catalog ?? 0 (and
\* support_docs alike); the settings page shows them at all times
RagCounts ==
    IF view = "dashboard" /\ ~StatusRendered THEN {}
    ELSE {IF stats = None THEN 0 ELSE Val(stats).rag.catalog}

----------------------------------------------------------------------------
(* Status pages: DashboardPage and SettingsPage *)

InitStatus ==
    /\ view \in StatusViews
    /\ life = "init"
    /\ health = None
    /\ stats = None
    /\ error = None
    /\ loading = TRUE
    /\ lastRefresh = None
    /\ timer = FALSE
    /\ now = 0
    /\ calls = <<>>
    /\ settled = <<>>
    /\ ev = "render"
    /\ items = None /\ total = None /\ page = 0 /\ csv = None /\ thrown = None
    /\ json = <<>> /\ jsonError = None /\ result = None
    /\ filePath = <<>> /\ sourceTag = <<"manual">> /\ customTag = <<>> /\ sent = None

\* mutant: every refresh of the dashboard raises the loading flag
DashboardLoadStart_SetsLoading ==
    /\ calls' = Append(calls, [h |-> Pending, s |-> Pending])
    /\ loading' = SetState(loading, TRUE)

\* load(), up to its await: both fetches are issued
DashboardLoadStart ==
    /\ calls' = Append(calls, [h |-> Pending, s |-> Pending])
    /\ UNCHANGED loading

SettingsLoadStart ==
    /\ loading' = SetState(loading, TRUE)
    /\ calls' = Append(calls, [h |-> Pending, s |-> Pending])

\* mutant: the stats fetch is not issued until the health fetch has completed
LoadStart_Sequential ==
    /\ loading' = IF view = "dashboard" THEN loading ELSE SetState(loading, TRUE)
    /\ calls' = Append(calls, [h |-> Pending, s |-> [st |-> "unissued", body |-> None]])

LoadStart == IF view = "dashboard" THEN DashboardLoadStart ELSE SettingsLoadStart

\* mutant: a failed refresh clears the held data
DashboardLoadResume_ClearsOnFailure(r, c) ==
    /\ IF PromiseAll(c) = "fulfilled"
       THEN /\ health' = SetState(health, c.h.body)
            /\ stats' = SetState(stats, c.s.body)
            /\ error' = SetState(error, None)
            /\ lastRefresh' = SetState(lastRefresh, Some(now))
       ELSE /\ error' = SetState(error, Some(BACKEND_ERROR))
            /\ health' = SetState(health, None)
            /\ stats' = SetState(stats, None)
            /\ lastRefresh' = SetState(lastRefresh, None)
    /\ loading' = SetState(loading, FALSE)

\* mutant: a successful refresh leaves the error flag as it was
DashboardLoadResume_KeepsError(r, c) ==
    /\ IF PromiseAll(c) = "fulfilled"
       THEN /\ health' = SetState(health, c.h.body)
            /\ stats' = SetState(stats, c.s.body)
            /\ lastRefresh' = SetState(lastRefresh, Some(now))
            /\ UNCHANGED error
       ELSE /\ error' = SetState(error, Some(BACKEND_ERROR))
            /\ UNCHANGED <<health, stats, lastRefresh>>
    /\ loading' = SetState(loading, FALSE)

\* mutant: each fetch is applied on its own (Promise.allSettled style)
DashboardLoadResume_Partial(r, c) ==
    /\ IF PromiseAll(c) = "fulfilled"
       THEN /\ health' = SetState(health, c.h.body)
            /\ stats' = SetState(stats, c.s.body)
            /\ error' = SetState(error, None)
            /\ lastRefresh' = SetState(lastRefresh, Some(now))
       ELSE /\ error' = SetState(error, Some(BACKEND_ERROR))
            /\ health' = IF c.h.st = "fulfilled" THEN SetState(health, c.h.body) ELSE health
            /\ stats' = IF c.s.st = "fulfilled" THEN SetState(stats, c.s.body) ELSE stats
            /\ UNCHANGED lastRefresh
    /\ loading' = SetState(loading, FALSE)

\* mutant: a call that resumes after a newer call has resumed is dropped
DashboardLoadResume_DiscardStale(r, c) ==
    IF \E i \in DOMAIN settled : settled[i] > r
    THEN UNCHANGED <<health, stats, error, lastRefresh, loading>>
    ELSE /\ IF PromiseAll(c) = "fulfilled"
            THEN /\ health' = SetState(health, c.h.body)
                 /\ stats' = SetState(stats, c.s.body)
                 /\ error' = SetState(error, None)
                 /\ lastRefresh' = SetState(lastRefresh, Some(now))
            ELSE /\ error' = SetState(error, Some(BACKEND_ERROR))
                 /\ UNCHANGED <<health, stats, lastRefresh>>
         /\ loading' = SetState(loading, FALSE)

\* load(), after its await, for call r whose Promise.all settled as c
DashboardLoadResume(r, c) ==
    /\ IF PromiseAll(c) = "fulfilled"
       THEN /\ health' = SetState(health, c.h.body)
            /\ stats' = SetState(stats, c.s.body)
            /\ error' = SetState(error, None)
            /\ lastRefresh' = SetState(lastRefresh, Some(now))
       ELSE /\ error' = SetState(error, Some(BACKEND_ERROR))
            /\ UNCHANGED <<health, stats, lastRefresh>>
    /\ loading' = SetState(loading, FALSE)

SettingsLoadResume(r, c) ==
    /\ IF PromiseAll(c) = "fulfilled"
       THEN /\ health' = SetState(health, c.h.body)
            /\ stats' = SetState(stats, c.s.body)
       ELSE UNCHANGED <<health, stats>>
    /\ loading' = SetState(loading, FALSE)
    /\ UNCHANGED <<error, lastRefresh>>

LoadResume(r, c) ==
    IF view = "dashboard" THEN DashboardLoadResume(r, c) ELSE SettingsLoadResume(r, c)

\* a settled fetch once load() has resumed: its value has been handed over
Consumed(f) == [st |-> f.st, body |-> None]

\* mutant: a refresh that failed is started again at once
FetchSettles_Retry(r, c) ==
    /\ PromiseAll(calls[r]) = "pending"
    /\ IF PromiseAll(c) # "pending"
       THEN /\ LoadResume(r, c)
            /\ calls' = IF PromiseAll(c) = "rejected" /\ Len(calls) < MaxCalls
                        THEN Append([calls EXCEPT ![r] = [h |-> Consumed(c.h),
                                                          s |-> Consumed(c.s)]],
                                    [h |-> Pending, s |-> Pending])
                        ELSE [calls EXCEPT ![r] = [h |-> Consumed(c.h), s |-> Consumed(c.s)]]
            /\ settled' = Append(settled, r)
       ELSE /\ calls' = [calls EXCEPT ![r] = c]
            /\ UNCHANGED <<health, stats, error, loading, lastRefresh, settled>>
    /\ ev' = "response"
    /\ UNCHANGED <<pageVars, formVars>>
    /\ UNCHANGED <<view, life, timer, now>>

\* one of the two fetches of call r settles, which makes the call c; load() resumes
\* when that settles Promise.all.  A fetch that settles after Promise.all has
\* rejected is observed by nothing and is left out.
FetchSettles(r, c) ==
    /\ PromiseAll(calls[r]) = "pending"
    /\ IF PromiseAll(c) # "pending"
       THEN /\ LoadResume(r, c)
            /\ calls' = [calls EXCEPT ![r] = [h |-> Consumed(c.h), s |-> Consumed(c.s)]]
            /\ settled' = Append(settled, r)
       ELSE /\ calls' = [calls EXCEPT ![r] = c]
            /\ UNCHANGED <<health, stats, error, loading, lastRefresh, settled>>
    /\ ev' = "response"
    /\ UNCHANGED <<pageVars, formVars>>
    /\ UNCHANGED <<view, life, timer, now>>

HealthSettles ==
    \E r \in DOMAIN calls :
        /\ calls[r].h = Pending
        /\ \E o \in fetchHealth(r) : FetchSettles(r, [calls[r] EXCEPT !.h = o])

StatsSettles ==
    \E r \in DOMAIN calls :
        /\ calls[r].s = Pending
        /\ \E o \in fetchStats(r) : FetchSettles(r, [calls[r] EXCEPT !.s = o])

\* useEffect body: load() at once; the dashboard also arms the interval
DashboardEffect ==
    /\ LoadStart
    /\ timer' = TRUE

SettingsEffect ==
    /\ LoadStart
    /\ UNCHANGED timer

Activate ==
    /\ life = "init"
    /\ life' = "active"
    /\ IF view = "dashboard" THEN DashboardEffect ELSE SettingsEffect
    /\ ev' = "activate"
    /\ UNCHANGED <<pageVars, formVars>>
    /\ UNCHANGED <<view, health, stats, error, lastRefresh, now, settled>>

\* mutant: the interval fires and starts nothing
Tick_NoLoad ==
    /\ timer
    /\ Len(calls) < MaxCalls
    /\ now' = now + INTERVAL_MS
    /\ ev' = "tick"
    /\ UNCHANGED <<view, life, health, stats, error, loading, lastRefresh, timer, calls,
                   settled, pageVars, formVars>>

\* the interval fires: load()
Tick ==
    /\ timer
    /\ Len(calls) < MaxCalls
    /\ now' = now + INTERVAL_MS
    /\ LoadStart
    /\ ev' = "tick"
    /\ UNCHANGED <<pageVars, formVars>>
    /\ UNCHANGED <<view, life, health, stats, error, lastRefresh, timer, settled>>

\* the refresh button: onClick={load}; the dashboard's is disabled while loading
RefreshEnabled ==
    /\ life = "active"
    /\ view = "dashboard" => ~loading

ClickRefresh ==
    /\ RefreshEnabled
    /\ Len(calls) < MaxCalls
    /\ LoadStart
    /\ ev' = "click"
    /\ UNCHANGED <<pageVars, formVars>>
    /\ UNCHANGED <<view, life, health, stats, error, lastRefresh, timer, now, settled>>

\* mutant: the cleanup leaves the interval armed
DashboardCleanup_NoClear == UNCHANGED timer

\* useEffect cleanup of the dashboard: clearInterval(t)
DashboardCleanup == timer' = FALSE

SettingsCleanup == UNCHANGED timer

Teardown ==
    /\ life = "active"
    /\ life' = "torn"
    /\ IF view = "dashboard" THEN DashboardCleanup ELSE SettingsCleanup
    /\ ev' = "teardown"
    /\ UNCHANGED <<pageVars, formVars>>
    /\ UNCHANGED <<view, health, stats, error, loading, lastRefresh, now, calls, settled>>

NextStatus ==
    \/ Activate
    \/ Tick
    \/ ClickRefresh
    \/ HealthSettles
    \/ StatsSettles
    \/ Teardown

SpecStatus == InitStatus /\ [][NextStatus]_vars

----------------------------------------------------------------------------
(* Properties of the status pages *)

\* call r's load() resumes in this step
Resumes(r) ==
    /\ Len(settled') = Len(settled) + 1
    /\ settled'[Len(settled')] = r

\* a call started after r has already resumed
NewerResumed(r) == \E i \in DOMAIN settled : settled[i] > r

\* the calls that resumed with both fetches fulfilled, by position in `settled`
OkPositions == {i \in DOMAIN settled : PromiseAll(calls[settled[i]]) = "fulfilled"}

LastOkPosition == CHOOSE i \in OkPositions : \A j \in OkPositions : j <= i

\* C1: in the mounted dashboard, a refresh that resumes with the health or the
\* stats fetch rejected (transport error or non-2xx) leaves health, stats and
\* lastRefresh as they were and sets error to the fixed backend message.
C1_FailureKeepsData ==
    [][\A r \in DOMAIN calls :
          (view = "dashboard" /\ life = "active" /\ Resumes(r)
             /\ PromiseAll(calls'[r]) = "rejected")
          => /\ health' = health
             /\ stats' = stats
             /\ lastRefresh' = lastRefresh
             /\ error' = Some(BACKEND_ERROR)]_vars

\* a failed refresh has resumed over good data: the data is still held
C1_Witness ==
    /\ view = "dashboard"
    /\ life = "active"
    /\ Len(settled) = 2
    /\ PromiseAll(calls[settled[1]]) = "fulfilled"
    /\ PromiseAll(calls[settled[2]]) = "rejected"
    /\ health # None
    /\ error = Some(BACKEND_ERROR)

\* C2: in the mounted dashboard, a refresh that resumes with both fetches
\* fulfilled stores exactly its two responses, records the time and clears error.
C2_SuccessReplaces ==
    [][\A r \in DOMAIN calls :
          (view = "dashboard" /\ life = "active" /\ Resumes(r)
             /\ PromiseAll(calls'[r]) = "fulfilled")
          => /\ health' # None /\ Val(health').req = r
             /\ stats' # None /\ Val(stats').req = r
             /\ calls[r].h.st = "fulfilled" => health' = calls[r].h.body
             /\ calls[r].s.st = "fulfilled" => stats' = calls[r].s.body
             /\ lastRefresh' = Some(now)
             /\ error' = None]_vars

\* a refresh succeeded after one that failed: the error flag is cleared again
C2_Witness ==
    /\ view = "dashboard"
    /\ life = "active"
    /\ Len(settled) = 2
    /\ PromiseAll(calls[settled[1]]) = "rejected"
    /\ PromiseAll(calls[settled[2]]) = "fulfilled"
    /\ health # None /\ Val(health).req = settled[2]
    /\ error = None
    /\ lastRefresh # None

\* C3: health and stats are both absent or both the responses of one call
\* whose two fetches were fulfilled; in the dashboard lastRefresh is absent
\* exactly when the pair is.
C3_PairAtomic ==
    /\ \/ health = None /\ stats = None
       \/ /\ health # None /\ stats # None
          /\ Val(health).req = Val(stats).req
          /\ Val(health).req \in DOMAIN calls
          /\ PromiseAll(calls[Val(health).req]) = "fulfilled"
    /\ view = "dashboard" => (lastRefresh = None <=> health = None)

\* a pair is held while another call had only its health fetch fulfilled
C3_Witness ==
    /\ health # None
    /\ \E r \in DOMAIN calls :
          /\ calls[r].h.st = "fulfilled"
          /\ calls[r].s.st = "rejected"
          /\ r \in {settled[i] : i \in DOMAIN settled}

\* C4 as stated: in the mounted dashboard, a call that resumes after a newer
\* call has resumed changes none of health, stats, lastRefresh, error.
C4_StaleDiscarded ==
    [][\A r \in DOMAIN calls :
          (view = "dashboard" /\ life = "active" /\ Resumes(r) /\ NewerResumed(r))
          => UNCHANGED <<health, stats, lastRefresh, error>>]_vars

\* C4 amended: in the mounted dashboard, a call that resumes after a newer
\* call has resumed is applied like any other: fulfilled, its (older)
\* responses replace the pair, the time is recorded and error is cleared;
\* rejected, the pair and the time stay and error is set.
C4_StaleApplied ==
    [][\A r \in DOMAIN calls :
          (view = "dashboard" /\ life = "active" /\ Resumes(r) /\ NewerResumed(r))
          => IF PromiseAll(calls'[r]) = "fulfilled"
             THEN /\ health' # None /\ Val(health').req = r
                  /\ stats' # None /\ Val(stats').req = r
                  /\ lastRefresh' = Some(now)
                  /\ error' = None
             ELSE /\ UNCHANGED <<health, stats, lastRefresh>>
                  /\ error' = Some(BACKEND_ERROR)]_vars

\* the older call resumed last and its responses are the ones held
C4_Witness ==
    /\ view = "dashboard"
    /\ life = "active"
    /\ \E i, j \in DOMAIN settled :
          /\ i < j
          /\ settled[i] > settled[j]
          /\ PromiseAll(calls[settled[i]]) = "fulfilled"
          /\ health # None /\ Val(health).req = settled[j]

\* C5: in the mounted dashboard the held pair is that of the call that, among
\* the calls resumed with both fetches fulfilled, resumed last (whatever the
\* order the calls were started in); it is absent when there is none.  In
\* particular this holds once every started call has resumed.
C5_LastCompletionWins ==
    (view = "dashboard" /\ life = "active")
    => IF OkPositions = {}
       THEN health = None /\ stats = None
       ELSE /\ health # None /\ Val(health).req = settled[LastOkPosition]
            /\ stats # None /\ Val(stats).req = settled[LastOkPosition]

\* every call has resumed, the first started one last, after a success of the second
C5_Witness ==
    /\ view = "dashboard"
    /\ life = "active"
    /\ Len(calls) >= 2
    /\ Len(settled) = Len(calls)
    /\ settled[Len(settled)] = 1
    /\ OkPositions = DOMAIN settled
    /\ Val(health).req = 1

\* C7: once the dashboard is torn down the interval is disarmed and no event
\* starts a load(): no tick, and no new call.
C7_TimerCancelled ==
    [][(view = "dashboard" /\ life' = "torn")
          => /\ ~timer'
             /\ ev' # "tick"
             /\ Len(calls') = Len(calls)]_vars

\* the dashboard is torn down after a single call, with time left for ticks
C7_Witness ==
    /\ view = "dashboard"
    /\ life = "torn"
    /\ Len(calls) = 1
    /\ ev = "response"

\* C8 as stated, for the timer: every active status page (dashboard and
\* settings) has the fixed-period timer armed.
C8_EveryStatusViewPolls ==
    life = "active" => timer

\* C8 amended: activation of either page starts exactly one load(); the
\* dashboard alone arms the timer, and each of its ticks starts one load();
\* the settings page arms no timer and never ticks; each refresh click starts
\* one load().
C8_Scheduling ==
    [][/\ (life = "init" /\ life' = "active")
          => /\ ev' = "activate"
             /\ Len(calls') = Len(calls) + 1
             /\ timer' <=> view = "dashboard"
       /\ ev' = "tick"
          => /\ view = "dashboard"
             /\ now' = now + INTERVAL_MS
             /\ Len(calls') = Len(calls) + 1
       /\ ev' = "click" => Len(calls') = Len(calls) + 1
       /\ Len(calls') # Len(calls) => ev' \in {"activate", "tick", "click"}
       /\ view = "settings" => ~timer']_vars

\* the dashboard has started a second call at a tick
C8_Witness ==
    /\ view = "dashboard"
    /\ life = "active"
    /\ ev = "tick"
    /\ Len(calls) = 2

\* every pair the backend can answer with
AllHealth == UNION {HealthResponse(r) : r \in 1..MaxCalls}
AllStats == UNION {StatsResponse(r) : r \in 1..MaxCalls}

\* C9: for the held pair, apiOk depends on health.status only, redisOk on
\* stats.queue.error only and ragOk on stats.rag.error only: any other pair
\* that agrees on that one input yields the same boolean.
C9_StatusIndependence ==
    (health # None /\ stats # None)
    => \A h2 \in AllHealth, s2 \in AllStats :
          /\ h2.status = Val(health).status
             => apiOk(Some(h2), Some(s2)) = apiOk(health, stats)
          /\ s2.queue.error = Val(stats).queue.error
             => redisOk(Some(h2), Some(s2)) = redisOk(health, stats)
          /\ s2.rag.error = Val(stats).rag.error
             => ragOk(Some(h2), Some(s2)) = ragOk(health, stats)

\* the rag block alone carries an error: only ragOk is false
C9_Witness ==
    /\ health # None /\ stats # None
    /\ Val(stats).rag.error = Some("connection refused")
    /\ Val(stats).queue.error = None
    /\ apiOk(health, stats)
    /\ redisOk(health, stats)
    /\ ~ragOk(health, stats)

\* what a status page shows of a failure: the dashboard its error banner, the
\* settings page (which keeps no error state) a red row of its status block
ErrorIndicated ==
    IF view = "dashboard" THEN error # None
    ELSE ~loading /\ ~(apiOk(health, stats) /\ redisOk(health, stats) /\ ragOk(health, stats))

\* C23: in a mounted status page, when a refresh resumes with one of its
\* fetches rejected (transport failure or non-2xx), the loading flag is reset
\* and the page is left showing an error indication.
C23_FailuresShown ==
    [][\A r \in DOMAIN calls' :
         (life = "active" /\ Resumes(r) /\ PromiseAll(calls'[r]) = "rejected")
         => ~loading' /\ ErrorIndicated']_vars

C25_SubsystemErrorShown ==
    (view \in StatusViews /\ life = "active" /\ stats # None /\ StatusRendered)
    => /\ (RagError # None /\ RagError # Some(""))
            => /\ ~ragOk(health, stats)
               /\ Val(RagError) \in RagTexts
               /\ apiOk(health, stats)
                     = apiOk(health, Some([Val(stats) EXCEPT !.rag.error = None]))
               /\ redisOk(health, stats)
                     = redisOk(health, Some([Val(stats) EXCEPT !.rag.error = None]))
       /\ (QueueError # None /\ QueueError # Some(""))
            => /\ ~redisOk(health, stats)
               /\ Val(QueueError) \in QueueTexts
               /\ apiOk(health, stats)
                     = apiOk(health, Some([Val(stats) EXCEPT !.queue.error = None]))
               /\ ragOk(health, stats)
                     = ragOk(health, Some([Val(stats) EXCEPT !.queue.error = None]))

\* the held stats report a queue or a rag error
SubsystemError == ~redisOk(health, stats) \/ ~ragOk(health, stats)

\* C26: in the mounted dashboard, a refresh that resumes with a fetch rejected
\* sets the error flag and leaves apiOk, redisOk and ragOk as they were; a
\* refresh that resumes with both fetches fulfilled clears the error flag,
\* also when its stats carry a queue or rag error.
C26_SeparateChannels ==
    [][\A r \in DOMAIN calls' :
         (view = "dashboard" /\ life = "active" /\ Resumes(r))
         => /\ PromiseAll(calls'[r]) = "rejected"
                 => /\ error' = Some(BACKEND_ERROR)
                    /\ apiOk(health', stats') = apiOk(health, stats)
                    /\ redisOk(health', stats') = redisOk(health, stats)
                    /\ ragOk(health', stats') = ragOk(health, stats)
            /\ PromiseAll(calls'[r]) = "fulfilled" => error' = None]_vars

\* error flag set while the retained snapshot reports a subsystem error
C26_Witness ==
    /\ view = "dashboard" /\ life = "active"
    /\ error # None /\ SubsystemError
    /\ Len(settled) = 2

\* the three other combinations of the two channels
C26_WitnessErrorOnly ==
    view = "dashboard" /\ life = "active" /\ stats # None /\ error # None /\ ~SubsystemError

C26_WitnessSubsystemOnly ==
    view = "dashboard" /\ life = "active" /\ error = None /\ SubsystemError

C26_WitnessNeither ==
    view = "dashboard" /\ life = "active" /\ stats # None /\ error = None /\ ~SubsystemError

\* C27: in a mounted status page, whenever the held stats carry a queue
\* error no queue count is shown as a number, and whenever they carry a rag
\* error no index count is shown as a number.
C27_CountsUnknownUnderError ==
    (view \in StatusViews /\ life = "active")
    => /\ QueueError # None => \A n \in QueueCounts : n \notin Nat
       /\ RagError # None => \A n \in RagCounts : n \notin Nat

\* C29: for the held stats, redisOk is false exactly when the queue block
\* carries an error field and ragOk is false exactly when the rag block
\* carries one, whatever string the field holds, the empty one included.
C29_FlagFollowsPresence ==
    (view \in StatusViews /\ stats # None)
    => /\ ~redisOk(health, stats) <=> Val(stats).queue.error # None
       /\ ~ragOk(health, stats) <=> Val(stats).rag.error # None

\* C30: every refresh of a status page issues the health request and the
\* stats request in one step, both in flight before either completes; each
\* then settles on its own, in either order; a refresh stores its pair (and,
\* on the dashboard, clears the error) exactly when both were fulfilled; and
\* when one of the two is rejected the other one had been issued all the same.
C30_ConcurrentFetches ==
    /\ [][Len(calls') > Len(calls)
            => calls'[Len(calls')] = [h |-> Pending, s |-> Pending]]_vars
    /\ [](view \in StatusViews
            => \A r \in DOMAIN calls :
                  /\ calls[r].h.st \in {"pending", "fulfilled", "rejected"}
                  /\ calls[r].s.st \in {"pending", "fulfilled", "rejected"})
    /\ [][\A r \in DOMAIN calls' :
            (view \in StatusViews /\ life = "active" /\ Resumes(r))
            => ((/\ health' # None /\ Val(health').req = r
                 /\ stats' # None /\ Val(stats').req = r
                 /\ view = "dashboard" => error' = None)
                <=> (calls'[r].h.st = "fulfilled" /\ calls'[r].s.st = "fulfilled"))]_vars

\* the health fetch of the first refresh was rejected while its stats fetch,
\* issued with it, was still in flight
C30_Witness ==
    /\ view = "dashboard"
    /\ settled = <<1>>
    /\ calls[1].h.st = "rejected"
    /\ calls[1].s.st = "pending"
    /\ error # None

\* the stats fetch settled first, the health fetch still in flight
C30_WitnessStatsFirst ==
    /\ view \in StatusViews
    /\ Len(calls) >= 1
    /\ calls[1].s.st = "fulfilled"
    /\ calls[1].h.st = "pending"

C32_NoSnapshotStatus ==
    (view \in StatusViews /\ health = None /\ stats = None)
    => /\ ~apiOk(health, stats)
       /\ redisOk(health, stats)
       /\ ragOk(health, stats)
       /\ StatusRendered
            => /\ QueueTexts = IF view = "dashboard"
                               THEN {"Redis conectado", "Online", "conectado"}
                               ELSE {"Conectado"}
               /\ RagTexts = IF view = "dashboard" THEN {"ChromaDB ok"} ELSE {"Operativo"}

\* the first refresh of the dashboard failed: the badges are rendered with no
\* snapshot held
C32_Witness ==
    /\ view = "dashboard"
    /\ life = "active"
    /\ settled = <<1>>
    /\ error = Some(BACKEND_ERROR)
    /\ health = None /\ stats = None
    /\ StatusRendered

\* C33: in the dashboard, before teardown, the loading flag is true exactly
\* as long as no refresh has completed (fulfilled or rejected), and once
\* mounted the refresh button is enabled exactly when the flag is false,
\* whatever refreshes are in flight.
C33_LoadingOneShot ==
    (view = "dashboard" /\ life # "torn")
    => /\ loading <=> settled = <<>>
       /\ life = "active" => (RefreshEnabled <=> ~loading)

\* the first refresh has completed, the second one is in flight, and the
\* refresh button is enabled
C33_Witness ==
    /\ view = "dashboard"
    /\ life = "active"
    /\ settled = <<1>>
    /\ Len(calls) = 2
    /\ PromiseAll(calls[2]) = "pending"
    /\ ~loading
    /\ RefreshEnabled

\* two refreshes in flight at once
C33_WitnessTwoInFlight ==
    /\ view = "dashboard"
    /\ life = "active"
    /\ Len(calls) = 2
    /\ PromiseAll(calls[1]) = "pending"
    /\ PromiseAll(calls[2]) = "pending"

----------------------------------------------------------------------------
(* List pages: ConversationsPage and LeadsPage *)

MaxPageCalls == 3    \* load(p) invocations per behaviour

CONVERSATIONS_PAGE_SIZE == 20
LEADS_PAGE_SIZE == 50

CONVERSATIONS_ERROR == "No se pudo cargar. Agrega /admin/conversations al backend."
LEADS_ERROR == "No se pudo cargar. Agrega /admin/leads al backend."

PageViews == {"conversations", "leads"}

PageSize == IF view = "conversations" THEN CONVERSATIONS_PAGE_SIZE ELSE LEADS_PAGE_SIZE

PageError == IF view = "conversations" THEN CONVERSATIONS_ERROR ELSE LEADS_ERROR

\* totals the backend may report; it may report another one at each request
Totals == {0, 45, 120}

\* Math.ceil(a / b)
Ceil(a, b) == (a + b - 1) \div b

\* the ids of the records of page p when the backend holds n records
PageItems(p, size, n) ==
    LET first == (p - 1) * size
        len == IF n - first > size THEN size ELSE IF n - first < 0 THEN 0 ELSE n - first
    IN [k \in 1..len |-> first + k]

\* bodies the backend may answer call r for page p with
PageResponse(r, p, size) ==
    {[req |-> r, items |-> PageItems(p, size, n), total |-> n, page |-> p,
      page_size |-> size] : n \in Totals}

\* e.message of the SyntaxError res.json() rejects with for a body that is not JSON
BODY_SYNTAX_ERROR == "Unexpected token '<', \"<!DOCTYPE \"... is not valid JSON"

\* what may come back for the GET of call r: no response at all, a 2xx answer
\* with a page body, a 2xx answer whose body is not JSON, a non-2xx answer
PageAnswers(r, p, size) ==
    {[kind |-> "transport", status |-> 0, body |-> Some(m)] : m \in TRANSPORT_ERRORS}
        \cup {[kind |-> "http", status |-> 200, body |-> Some(b)] :
                 b \in PageResponse(r, p, size)}
        \cup {[kind |-> "http", status |-> st, body |-> None] : st \in {200, 404, 500}}

\* `${API_URL}/admin/conversations?page=${page}&page_size=${pageSize}`, after API_URL
PageUrl(p, size) ==
    (IF view = "conversations" THEN "/admin/conversations" ELSE "/admin/leads")
        \o "?page=" \o ToString(p) \o "&page_size=" \o ToString(size)

\* mutant: the Error of a non-2xx answer does not say which status it was
NotOkError_NoStatus(a) ==
    [name |-> "Error",
     message |-> IF view = "conversations" THEN "Conversations falló" ELSE "Leads falló"]

\* new Error(`Conversations falló: ${res.status}`) / new Error(`Leads falló: ${res.status}`)
NotOkError(a) ==
    [name |-> "Error",
     message |-> (IF view = "conversations" THEN "Conversations falló: " ELSE "Leads falló: ")
                    \o ToString(a.status)]

\* the body of fetchConversations / fetchLeads from fetch() on: how the promise settles
fetchPageSettle(a) ==
    IF a.kind = "transport"
    THEN Rejected([name |-> "TypeError", message |-> Val(a.body)])
    ELSE IF ~ResOk(a) THEN Rejected(NotOkError(a))
    ELSE IF a.body = None
    THEN Rejected([name |-> "SyntaxError", message |-> BODY_SYNTAX_ERROR])
    ELSE Fulfilled(Val(a.body))

\* fetchConversations(p, size) / fetchLeads(p, size) for call r: the ways its
\* promise may settle
fetchPage(r, p, size) == {fetchPageSettle(a) : a \in PageAnswers(r, p, size)}

InitPages ==
    /\ view \in PageViews
    /\ life = "init"
    /\ items = [req |-> 0, list |-> <<>>]
    /\ total = [req |-> 0, n |-> 0]
    /\ page = 1
    /\ csv = None
    /\ thrown = None
    /\ loading = TRUE
    /\ error = None
    /\ calls = <<>>
    /\ settled = <<>>
    /\ ev = "render"
    /\ health = None /\ stats = None /\ lastRefresh = None /\ timer = FALSE /\ now = 0
    /\ json = <<>> /\ jsonError = None /\ result = None
    /\ filePath = <<>> /\ sourceTag = <<"manual">> /\ customTag = <<>> /\ sent = None

\* load(p), up to its await
PageLoadStart(p) ==
    /\ loading' = SetState(loading, TRUE)
    /\ calls' = Append(calls, [page |-> p, url |-> PageUrl(p, PageSize), f |-> Pending])

\* mutant: the records of a response are appended to the stored ones
PageLoadResume_Appends(r, o) ==
    /\ IF o.st = "fulfilled"
       THEN /\ items' = SetState(items, [req |-> r,
                                          list |-> items.list \o Val(o.body).items])
            /\ total' = SetState(total, [req |-> r, n |-> Val(o.body).total])
            /\ error' = SetState(error, None)
       ELSE /\ error' = SetState(error, Some(PageError))
            /\ UNCHANGED <<items, total>>
    /\ loading' = SetState(loading, FALSE)

\* mutant: a failed page request empties the list
PageLoadResume_ClearsOnFailure(r, o) ==
    /\ IF o.st = "fulfilled"
       THEN /\ items' = SetState(items, [req |-> r, list |-> Val(o.body).items])
            /\ total' = SetState(total, [req |-> r, n |-> Val(o.body).total])
            /\ error' = SetState(error, None)
       ELSE /\ error' = SetState(error, Some(PageError))
            /\ items' = SetState(items, [req |-> r, list |-> <<>>])
            /\ total' = SetState(total, [req |-> r, n |-> 0])
    /\ loading' = SetState(loading, FALSE)

\* load(p), after its await, for call r whose fetch settled as o
PageLoadResume(r, o) ==
    /\ IF o.st = "fulfilled"
       THEN /\ items' = SetState(items, [req |-> r, list |-> Val(o.body).items])
            /\ total' = SetState(total, [req |-> r, n |-> Val(o.body).total])
            /\ error' = SetState(error, None)
       ELSE /\ error' = SetState(error, Some(PageError))
            /\ UNCHANGED <<items, total>>
    /\ loading' = SetState(loading, FALSE)

\* the fetch of call r settles as o and load(p) resumes
PageAnswered(r, o) ==
    /\ r \in DOMAIN calls
    /\ calls[r].f = Pending
    /\ PageLoadResume(r, o)
    /\ calls' = [calls EXCEPT ![r].f = Consumed(o)]
    /\ thrown' = IF o.st = "rejected" THEN o.body ELSE None
    /\ settled' = Append(settled, r)
    /\ ev' = "response"
    /\ UNCHANGED <<view, life, page, csv, statusVars, formVars>>

PageSettles ==
    \E r \in DOMAIN calls :
        \E o \in fetchPage(r, calls[r].page, PageSize) : PageAnswered(r, o)

\* useEffect(() => { load(page) }, [load, page]) on mount
PageActivate ==
    /\ life = "init"
    /\ life' = "active"
    /\ PageLoadStart(page)
    /\ ev' = "activate"
    /\ thrown' = None
    /\ UNCHANGED <<view, error, settled, items, total, page, csv, statusVars, formVars>>

\* mutant: 'previous' stays enabled on the first page
PrevEnabled_NoLowerBound == life = "active" /\ total.n > PageSize

\* the pagination controls are rendered when total > page size
PrevEnabled == life = "active" /\ total.n > PageSize /\ ~(page <= 1)

NextEnabled == life = "active" /\ total.n > PageSize /\ ~(page >= Ceil(total.n, PageSize))

\* setPage(p => p - 1), then the effect runs load(page)
ClickPrev ==
    /\ PrevEnabled
    /\ Len(calls) < MaxPageCalls
    /\ page' = page - 1
    /\ PageLoadStart(page')
    /\ ev' = "prev"
    /\ thrown' = None
    /\ UNCHANGED <<view, life, error, settled, items, total, csv, statusVars, formVars>>

\* setPage(p => p + 1), then the effect runs load(page)
ClickNext ==
    /\ NextEnabled
    /\ Len(calls) < MaxPageCalls
    /\ page' = page + 1
    /\ PageLoadStart(page')
    /\ ev' = "next"
    /\ thrown' = None
    /\ UNCHANGED <<view, life, error, settled, items, total, csv, statusVars, formVars>>

\* the refresh button: onClick={() => load(page)}
ClickPageRefresh ==
    /\ life = "active"
    /\ Len(calls) < MaxPageCalls
    /\ PageLoadStart(page)
    /\ ev' = "click"
    /\ thrown' = None
    /\ UNCHANGED <<view, life, error, settled, items, total, page, csv, statusVars, formVars>>

PageTeardown ==
    /\ life = "active"
    /\ life' = "torn"
    /\ ev' = "teardown"
    /\ thrown' = None
    /\ UNCHANGED <<view, error, loading, calls, settled, items, total, page, csv, statusVars,
                   formVars>>

NextPages ==
    \/ PageActivate
    \/ ClickPrev
    \/ ClickNext
    \/ ClickPageRefresh
    \/ PageSettles
    \/ PageTeardown

SpecPages == InitPages /\ [][NextPages]_vars

----------------------------------------------------------------------------
(* Properties of the list pages *)

\* C6: in a mounted list page, once every request has completed successfully,
\* the stored items are those of the response to the most recently initiated
\* request: every item shown is a record of the current page index.
C6_ItemsOfCurrentPage ==
    (/\ view \in PageViews
     /\ life = "active"
     /\ Len(calls) >= 1
     /\ \A r \in DOMAIN calls : calls[r].f.st = "fulfilled")
    => \A k \in DOMAIN items.list : Ceil(items.list[k], PageSize) = page

\* C20: in a mounted list page the last page is ceil(total / page size),
\* 'previous' is unavailable exactly when page <= 1 and 'next' is unavailable
\* exactly when page >= last page; with 45 records and 20 per page the last
\* page is 3.
C20_Boundaries ==
    /\ Ceil(45, CONVERSATIONS_PAGE_SIZE) = 3
    /\ (view \in PageViews /\ life = "active")
         => /\ ~PrevEnabled <=> page <= 1
            /\ ~NextEnabled <=> page >= Ceil(total.n, PageSize)

\* C21: in a list page the stored items and the stored total always come
\* from one and the same response, and the stored items are exactly the items
\* of that response (nothing of another response is mixed in); before any
\* response both are empty.  Every page request started in the mounted page
\* sets the loading indicator, whatever an earlier request left in it.
C21_NoMerge ==
    /\ [](view \in PageViews
            => /\ items.req = total.req
               /\ items.req = 0 => items.list = <<>> /\ total.n = 0
               /\ items.req # 0
                    => /\ items.req \in DOMAIN calls
                       /\ calls[items.req].f.st = "fulfilled"
                       /\ items.list = PageItems(calls[items.req].page, PageSize, total.n))
    /\ [][(view \in PageViews /\ life' = "active" /\ Len(calls') > Len(calls))
            => loading']_vars

\* two page responses were applied one after the other, and the second one
\* brought records of page 2
C21_Witness ==
    /\ view = "conversations"
    /\ life = "active"
    /\ settled = <<1, 2>>
    /\ calls[1].f.st = "fulfilled"
    /\ items.req = 2
    /\ page = 2
    /\ Len(items.list) = CONVERSATIONS_PAGE_SIZE

\* C22: a page fetch answered with a non-2xx status rejects with an Error
\* whose message carries that status; a page fetch that gets no response
\* rejects with the TypeError of fetch(), which carries no status; the two
\* kinds of rejection differ for every pair of such answers; and the request
\* of every page load carries the current page index and the page size of
\* the view (20 for conversations, 50 for leads) as they are.
C22_FetchFailure ==
    [][/\ \A r \in DOMAIN calls :
            \A a \in PageAnswers(r, calls[r].page, PageSize) :
                PageAnswered(r, fetchPageSettle(a))
                => /\ (a.kind = "http" /\ a.status \notin 200..299)
                        => /\ thrown' # None
                           /\ Val(thrown').name = "Error"
                           /\ Val(thrown').message
                                 \in {"Conversations falló: " \o ToString(a.status),
                                      "Leads falló: " \o ToString(a.status)}
                   /\ a.kind = "transport"
                        => /\ thrown' # None
                           /\ Val(thrown').name = "TypeError"
                           /\ Val(thrown').message = Val(a.body)
                   /\ \A b \in PageAnswers(r, calls[r].page, PageSize) :
                         (a.kind = "transport" /\ b.kind = "http" /\ b.status \notin 200..299)
                         => fetchPageSettle(a) # fetchPageSettle(b)
       /\ (view \in PageViews /\ Len(calls') > Len(calls))
            => calls'[Len(calls')].url
                 = IF view = "conversations"
                   THEN "/admin/conversations?page=" \o ToString(page') \o "&page_size=20"
                   ELSE "/admin/leads?page=" \o ToString(page') \o "&page_size=50"]_vars

\* the conversations page asked for page 2 and the answer was a 500
C22_Witness ==
    /\ view = "conversations"
    /\ Len(calls) = 2
    /\ calls[2].url = "/admin/conversations?page=2&page_size=20"
    /\ calls[2].f.st = "rejected"
    /\ ev = "response"
    /\ thrown = Some([name |-> "Error", message |-> "Conversations falló: 500"])

\* the leads page got no response at all
C22_WitnessTransport ==
    /\ view = "leads"
    /\ ev = "response"
    /\ thrown = Some([name |-> "TypeError", message |-> "Failed to fetch"])

\* C28: in a list page the page index is at least 1 in every reachable
\* state, whatever the clicks on previous / next / refresh and whatever the
\* totals the responses report.
C28_PageAtLeastOne == view \in PageViews => page >= 1

\* back on page 1 by 'previous', after a response had reported several pages
C28_Witness ==
    /\ view \in PageViews
    /\ ev = "prev"
    /\ page = 1
    /\ total.n > PageSize
    /\ ~PrevEnabled

\* C34: in a mounted list page, whenever a request of the page is still in
\* flight the loading flag is true.
C34_LoadingCoversInFlight ==
    (view \in PageViews /\ life = "active" /\ \E r \in DOMAIN calls : calls[r].f = Pending)
    => loading

\* C35: in a mounted list page, a page request that resumes rejected leaves
\* the stored items, the stored total and the page index as they were and
\* sets the error message of the page; and an error message is cleared only
\* by a page request that resumes fulfilled.
C35_FailureKeepsPage ==
    [][(view \in PageViews /\ life = "active")
         => /\ \A r \in DOMAIN calls' :
                  (Resumes(r) /\ calls'[r].f.st = "rejected")
                  => /\ UNCHANGED <<items, total, page>>
                     /\ error' = Some(PageError)
            /\ (error # None /\ error' = None)
                 => \E r \in DOMAIN calls' : Resumes(r) /\ calls'[r].f.st = "fulfilled"]_vars

\* the request for page 2 failed: the index is 2, the items shown are those
\* of page 1, and the error message is set
C35_Witness ==
    /\ view = "conversations"
    /\ life = "active"
    /\ page = 2
    /\ settled = <<1, 2>>
    /\ calls[2].f.st = "rejected"
    /\ items.req = 1
    /\ calls[1].page = 1
    /\ Len(items.list) = CONVERSATIONS_PAGE_SIZE
    /\ error = Some(CONVERSATIONS_ERROR)

\* C36: in a mounted list page, whenever the page index is greater than 1
\* the 'previous' control is rendered and enabled, whatever total the last
\* response reported.
C36_PreviousAvailable ==
    (view \in PageViews /\ life = "active" /\ page > 1) => PrevEnabled

----------------------------------------------------------------------------
(* JSON texts and JSON.parse.  A text is a sequence of lexical elements:  *)
(* the brackets, the comma, a blank, and "{}" for an object literal.      *)

MaxTextLen == 1      \* lexical elements of a catalog text typed freely by the user

Chars == {"[", "]", ",", "{}", " "}

\* the initial text of the form: an array of two products
EXAMPLE_JSON == <<"[", "{}", ",", "{}", "]">>

\* longer texts the user may type: the initial one, the empty array, an array
\* of one product without fields, an array left open, a blank-padded object
SAMPLE_TEXTS ==
    {EXAMPLE_JSON, <<"[", "]">>, <<"[", "{}", "]">>, <<"[", "{}">>, <<" ", "{}", " ">>}

\* the texts the user may type
Texts == UNION {[1..n -> Chars] : n \in 0..MaxTextLen} \cup SAMPLE_TEXTS

ParseFail == [ok |-> FALSE, val |-> None, next |-> 0]
ParseOk(v, n) == [ok |-> TRUE, val |-> v, next |-> n]

JsonObject == [type |-> "object", elems |-> <<>>]
JsonArray(elems) == [type |-> "array", elems |-> elems]

RECURSIVE SkipWs(_, _)
SkipWs(s, i) == IF i <= Len(s) /\ s[i] = " " THEN SkipWs(s, i + 1) ELSE i

RECURSIVE ParseValue(_, _)
RECURSIVE ParseElements(_, _, _)

\* a value starting at s[i] (blanks already skipped)
ParseValue(s, i) ==
    IF i > Len(s) THEN ParseFail
    ELSE IF s[i] = "{}" THEN ParseOk(JsonObject, i + 1)
    ELSE IF s[i] = "["
         THEN LET j == SkipWs(s, i + 1)
              IN IF j <= Len(s) /\ s[j] = "]"
                 THEN ParseOk(JsonArray(<<>>), j + 1)
                 ELSE ParseElements(s, j, <<>>)
    ELSE ParseFail

\* the elements of an array from s[i] on, acc being those read so far
ParseElements(s, i, acc) ==
    LET v == ParseValue(s, i)
    IN IF ~v.ok THEN ParseFail
       ELSE LET j == SkipWs(s, v.next)
            IN IF j > Len(s) THEN ParseFail
               ELSE IF s[j] = "]" THEN ParseOk(JsonArray(Append(acc, v.val)), j + 1)
               ELSE IF s[j] = "," THEN ParseElements(s, SkipWs(s, j + 1), Append(acc, v.val))
               ELSE ParseFail

\* JSON.parse(s): the value, or a thrown SyntaxError
JSONparse(s) ==
    LET v == ParseValue(s, SkipWs(s, 1))
    IN IF v.ok /\ SkipWs(s, v.next) > Len(s) THEN v ELSE ParseFail

\* Array.isArray(v)
ArrayIsArray(v) == v.type = "array"

\* s.trim().length > 0
TrimNonEmpty(s) == \E i \in DOMAIN s : s[i] # " "

----------------------------------------------------------------------------
(* Catalog form: CatalogPage *)

MaxPosts == 2        \* ingestion POSTs per behaviour

\* e.message of the SyntaxError thrown by JSON.parse
SYNTAX_ERROR == "SyntaxError"
MUST_BE_ARRAY == "El JSON debe ser un array de productos"

\* answers of the ingestion endpoint
IngestResponse(r) == {[req |-> r, status |-> "ok", chunks_indexed |-> n,
                       collection |-> "catalog"] : n \in {2}}

\* e.message of the TypeError raised by reading .detail of null
NULL_DETAIL_ERROR == "Cannot read properties of null (reading 'detail')"

SERVER_DETAIL == "Formato de catalogo no soportado"

\* bodies of a non-2xx answer: not JSON at all, the JSON value null, an
\* object without detail, an object with a detail string
ErrorBodies ==
    {[json |-> "unparseable", detail |-> None],
     [json |-> "null", detail |-> None],
     [json |-> "object", detail |-> None],
     [json |-> "object", detail |-> Some(SERVER_DETAIL)]}

\* what may come back for POST r: no response at all, a 2xx answer with an
\* IngestResponse body, or a non-2xx answer
IngestAnswers(r) ==
    {[kind |-> "transport", status |-> 0, body |-> Some(m)] : m \in TRANSPORT_ERRORS}
        \cup {[kind |-> "http", status |-> 200, body |-> Some(b)] : b \in IngestResponse(r)}
        \cup {[kind |-> "http", status |-> 500, body |-> Some(b)] : b \in ErrorBodies}

\* `HTTP ${res.status}`
HttpStatusMessage(a) == "HTTP " \o ToString(a.status)


\* the message of the Error thrown for a non-2xx answer:
\* const err = await res.json().catch(() => ({})); err.detail ?? `HTTP ${res.status}`
NotOkMessage(a) ==
    LET b == Val(a.body)
    IN IF b.json = "unparseable" THEN HttpStatusMessage(a)
       ELSE IF b.json = "null" THEN NULL_DETAIL_ERROR
       ELSE IF b.detail # None THEN Val(b.detail)
       ELSE HttpStatusMessage(a)

\* the body of ingestCatalog / ingestDocument from fetch() on: how the promise settles
ingest(a) ==
    IF a.kind = "transport" THEN Rejected(Val(a.body))
    ELSE IF ~ResOk(a) THEN Rejected(NotOkMessage(a))
    ELSE Fulfilled(Val(a.body))

\* JSON.stringify({ type: 'catalog', data: products })
CatalogBody(products) == [type |-> "catalog", data |-> products]

\* ingestCatalog(products) for POST r: the ways its promise may settle
ingestCatalog(r) == {ingest(a) : a \in IngestAnswers(r)}

InitCatalog ==
    /\ view = "catalog"
    /\ life = "active"
    /\ json = EXAMPLE_JSON
    /\ loading = FALSE
    /\ result = None
    /\ error = None
    /\ jsonError = None
    /\ calls = <<>>
    /\ settled = <<>>
    /\ ev = "render"
    /\ health = None /\ stats = None /\ lastRefresh = None /\ timer = FALSE /\ now = 0
    /\ items = None /\ total = None /\ page = 0 /\ csv = None /\ thrown = None
    /\ filePath = <<>> /\ sourceTag = <<"manual">> /\ customTag = <<>> /\ sent = None

\* handleJsonChange(value)
handleJsonChange(value) ==
    /\ json' = value
    /\ jsonError' = IF JSONparse(value).ok THEN None ELSE Some(SYNTAX_ERROR)

JsonChange ==
    /\ life = "active"
    /\ \E value \in Texts : handleJsonChange(value)
    /\ sent' = None
    /\ ev' = "edit"
    /\ UNCHANGED <<view, life, error, loading, result, calls, settled, statusVars, pageVars, docVars>>

\* mutant: the parsed value is posted without the array check
handleIngest_NoArrayCheck ==
    LET products == JSONparse(json)
    IN IF ~products.ok
       THEN /\ jsonError' = Some(SYNTAX_ERROR)
            /\ sent' = None
            /\ UNCHANGED <<loading, result, error, calls>>
       ELSE /\ jsonError' = None
            /\ loading' = TRUE
            /\ result' = None
            /\ error' = None
            /\ sent' = Some(CatalogBody(products.val))
            /\ calls' = Append(calls, [type |-> "catalog", f |-> Pending])

\* mutant: an array without items is refused locally
handleIngest_RequiresItems ==
    LET products == JSONparse(json)
    IN IF ~products.ok
       THEN /\ jsonError' = Some(SYNTAX_ERROR)
            /\ sent' = None
            /\ UNCHANGED <<loading, result, error, calls>>
       ELSE IF ~ArrayIsArray(products.val) \/ products.val.elems = <<>>
       THEN /\ jsonError' = Some(MUST_BE_ARRAY)
            /\ sent' = None
            /\ UNCHANGED <<loading, result, error, calls>>
       ELSE /\ jsonError' = None
            /\ loading' = TRUE
            /\ result' = None
            /\ error' = None
            /\ sent' = Some(CatalogBody(products.val))
            /\ calls' = Append(calls, [type |-> "catalog", f |-> Pending])

\* mutant: the earlier outcome is cleared before the text is validated
handleIngest_ClearsFirst ==
    LET products == JSONparse(json)
    IN IF ~products.ok
       THEN /\ jsonError' = Some(SYNTAX_ERROR)
            /\ result' = None
            /\ error' = None
            /\ sent' = None
            /\ UNCHANGED <<loading, calls>>
       ELSE IF ~ArrayIsArray(products.val)
       THEN /\ jsonError' = Some(MUST_BE_ARRAY)
            /\ result' = None
            /\ error' = None
            /\ sent' = None
            /\ UNCHANGED <<loading, calls>>
       ELSE /\ jsonError' = None
            /\ loading' = TRUE
            /\ result' = None
            /\ error' = None
            /\ sent' = Some(CatalogBody(products.val))
            /\ calls' = Append(calls, [type |-> "catalog", f |-> Pending])

\* handleIngest(), up to its await
handleIngest ==
    LET products == JSONparse(json)
    IN IF ~products.ok
       THEN /\ jsonError' = Some(SYNTAX_ERROR)
            /\ sent' = None
            /\ UNCHANGED <<loading, result, error, calls>>
       ELSE IF ~ArrayIsArray(products.val)
       THEN /\ jsonError' = Some(MUST_BE_ARRAY)
            /\ sent' = None
            /\ UNCHANGED <<loading, result, error, calls>>
       ELSE /\ jsonError' = None
            /\ loading' = TRUE
            /\ result' = None
            /\ error' = None
            /\ sent' = Some(CatalogBody(products.val))
            /\ calls' = Append(calls, [type |-> "catalog", f |-> Pending])

\* mutant: the button stays enabled while a POST is in flight
SubmitEnabled_IgnoresLoading == life = "active" /\ jsonError = None /\ TrimNonEmpty(json)

\* const isValid = !jsonError && json.trim().length > 0
isValid == jsonError = None /\ TrimNonEmpty(json)

\* the submit button: disabled={loading || !isValid}
SubmitEnabled == life = "active" /\ ~(loading \/ ~isValid)

\* whether handleIngest() would issue a POST for the current text
WouldPost == JSONparse(json).ok /\ ArrayIsArray(JSONparse(json).val)

\* a click on the submit button, which runs handleIngest()
ClickIngest ==
    /\ SubmitEnabled
    /\ WouldPost => Len(calls) < MaxPosts
    /\ handleIngest
    /\ ev' = "submit"
    /\ UNCHANGED <<view, life, json, settled, statusVars, pageVars, docVars>>

\* mutant: without the finally block, a failure leaves the loading flag set
handleIngestResume_NoFinally(r, o) ==
    IF o.st = "fulfilled"
    THEN /\ result' = SetState(result, o.body)
         /\ loading' = SetState(loading, FALSE)
         /\ UNCHANGED error
    ELSE /\ error' = SetState(error, o.body)
         /\ UNCHANGED <<result, loading>>

\* handleIngest(), after its await, for call r whose POST settled as o
handleIngestResume(r, o) ==
    /\ IF o.st = "fulfilled"
       THEN /\ result' = SetState(result, o.body)
            /\ UNCHANGED error
       ELSE /\ error' = SetState(error, o.body)
            /\ UNCHANGED result
    /\ loading' = SetState(loading, FALSE)

\* the POST of call r settles as o and handleIngest() resumes
IngestAnswered(r, o) ==
    /\ r \in DOMAIN calls
    /\ calls[r].f = Pending
    /\ handleIngestResume(r, o)
    /\ calls' = [calls EXCEPT ![r].f = Consumed(o)]
    /\ settled' = Append(settled, r)
    /\ sent' = None
    /\ ev' = "response"
    /\ UNCHANGED <<view, life, json, jsonError, statusVars, pageVars, docVars>>

IngestSettles ==
    \E r \in DOMAIN calls : \E o \in ingestCatalog(r) : IngestAnswered(r, o)

CatalogTeardown ==
    /\ life = "active"
    /\ life' = "torn"
    /\ sent' = None
    /\ ev' = "teardown"
    /\ UNCHANGED <<view, error, loading, calls, settled, statusVars, pageVars,
                   json, jsonError, result, docVars>>

NextCatalog ==
    \/ JsonChange
    \/ ClickIngest
    \/ IngestSettles
    \/ CatalogTeardown

SpecCatalog == InitCatalog /\ [][NextCatalog]_vars

----------------------------------------------------------------------------
(* Properties of the catalog form *)

\* C10: a text that is not valid JSON always carries the parser's message
\* and keeps the submit button disabled, so that no submit can issue a POST
\* for it; a submit of a text that parses to a non-array issues no POST and
\* sets the must-be-an-array message.  The parser's verdict decides first: a
\* text that does not parse never gets the must-be-an-array message.
C10_LocalValidation ==
    /\ [](life = "active" /\ ~JSONparse(json).ok
            => jsonError = Some(SYNTAX_ERROR) /\ ~SubmitEnabled)
    /\ [][(ev' = "submit" /\ ~(JSONparse(json).ok /\ JSONparse(json).val.type = "array"))
            => /\ calls' = calls
               /\ IF ~JSONparse(json).ok
                  THEN jsonError' = Some(SYNTAX_ERROR)
                  ELSE jsonError' = Some(MUST_BE_ARRAY)]_vars

\* a text that parses to an object was submitted: no POST, must-be-an-array shown
C10_Witness ==
    /\ view = "catalog"
    /\ ev = "submit"
    /\ json = <<" ", "{}", " ">>
    /\ jsonError = Some(MUST_BE_ARRAY)
    /\ calls = <<>>

\* a text that does not parse is held: the parser's message is shown
C10_WitnessSyntax ==
    /\ view = "catalog"
    /\ life = "active"
    /\ json = <<"[", "{}">>
    /\ jsonError = Some(SYNTAX_ERROR)

\* C11: for every catalog text that parses to a JSON array (the empty array
\* and arrays of objects without fields included) the submit button is
\* available whenever no POST is in flight, and one submit appends exactly
\* one POST, pending, whose body has type "catalog" and data equal to the
\* parsed array, items untouched; the earlier POSTs stay as they were.
C11_CatalogPost ==
    /\ [](life = "active" /\ JSONparse(json).ok /\ JSONparse(json).val.type = "array"
             /\ ~loading => SubmitEnabled)
    /\ [][(ev' = "submit" /\ JSONparse(json).ok /\ JSONparse(json).val.type = "array")
            => /\ Len(calls') = Len(calls) + 1
               /\ SubSeq(calls', 1, Len(calls)) = calls
               /\ calls'[Len(calls')] = [type |-> "catalog", f |-> Pending]
               /\ sent' = Some([type |-> "catalog", data |-> JSONparse(json).val])]_vars

\* the empty array was submitted: one POST is in flight, carrying no items
C11_Witness ==
    /\ view = "catalog"
    /\ ev = "submit"
    /\ json = <<"[", "]">>
    /\ Len(calls) = 1
    /\ calls[1].f = Pending
    /\ sent = Some([type |-> "catalog", data |-> [type |-> "array", elems |-> <<>>]])

\* an array of one product without a name was submitted as it is
C11_WitnessNoName ==
    /\ view = "catalog"
    /\ ev = "submit"
    /\ json = <<"[", "{}", "]">>
    /\ Val(sent).data.elems = <<[type |-> "object", elems |-> <<>>]>>

\* C37: a submit of the catalog form whose text is not a JSON array changes
\* the validation message only: the text, the submitting flag, the result of
\* an earlier submission, its failure message and the POSTs issued stay as
\* they were.
C37_RejectedSubmitKeepsOutcome ==
    [][(/\ view = "catalog"
        /\ ev' = "submit"
        /\ ~(JSONparse(json).ok /\ ArrayIsArray(JSONparse(json).val)))
       => /\ jsonError' # None
          /\ sent' = None
          /\ UNCHANGED <<json, loading, result, error, calls>>]_vars

\* the success of an earlier submission is displayed next to the validation
\* message of a submit that was refused
C37_Witness ==
    /\ view = "catalog"
    /\ ev = "submit"
    /\ jsonError = Some(MUST_BE_ARRAY)
    /\ result # None
    /\ ~loading
    /\ Len(calls) = 1

----------------------------------------------------------------------------
(* Document form: DocsPage.  The text of an input is a sequence of        *)
(* characters; a preset tag is a word of one element.                     *)

MaxFieldLen == 1     \* characters typed freely into a text input of the document form

TAGS == {<<"manual">>, <<"faq">>, <<"politicas">>, <<"garantia">>, <<"soporte">>,
         <<"catalogo">>}

CUSTOM_TAG == <<"__custom">>

\* a blank and a visible character
InputChars == {" ", "a"}

\* longer texts the user may type: blank-padded ones
SAMPLE_INPUTS == {<<" ", "a">>, <<"a", " ">>}

\* the texts the user may type into an input
InputTexts == UNION {[1..n -> InputChars] : n \in 0..MaxFieldLen} \cup SAMPLE_INPUTS

RECURSIVE TrimStart(_)
TrimStart(s) == IF s # <<>> /\ Head(s) = " " THEN TrimStart(Tail(s)) ELSE s

RECURSIVE TrimEnd(_)
TrimEnd(s) ==
    IF s # <<>> /\ s[Len(s)] = " " THEN TrimEnd(SubSeq(s, 1, Len(s) - 1)) ELSE s

\* s.trim()
Trim(s) == TrimEnd(TrimStart(s))

\* JSON.stringify({ type: 'document', file_path: filePath, source_tag: sourceTag })
DocumentBody(path, tag) == [type |-> "document", file_path |-> path, source_tag |-> tag]

\* ingestDocument(filePath, sourceTag) for POST r: the ways its promise may settle
ingestDocument(r) == {ingest(a) : a \in IngestAnswers(r)}

InitDocs ==
    /\ view = "docs"
    /\ life = "active"
    /\ filePath = <<>>
    /\ sourceTag = <<"manual">>
    /\ customTag = <<>>
    /\ loading = FALSE
    /\ result = None
    /\ error = None
    /\ calls = <<>>
    /\ settled = <<>>
    /\ ev = "render"
    /\ health = None /\ stats = None /\ lastRefresh = None /\ timer = FALSE /\ now = 0
    /\ items = None /\ total = None /\ page = 0 /\ csv = None /\ thrown = None
    /\ json = <<>> /\ jsonError = None /\ sent = None

\* const activeTag = sourceTag === '__custom' ? customTag : sourceTag
activeTag == IF sourceTag = CUSTOM_TAG THEN customTag ELSE sourceTag

\* the file path input: onChange={e => setFilePath(e.target.value)}
SetFilePath ==
    /\ life = "active"
    /\ \E value \in InputTexts : filePath' = value
    /\ sent' = None
    /\ ev' = "edit"
    /\ UNCHANGED <<view, life, error, loading, calls, settled, statusVars, pageVars,
                   json, jsonError, result, sourceTag, customTag>>

\* a tag button: onClick={() => setSourceTag(tag)}, the custom one included
SelectTag ==
    /\ life = "active"
    /\ \E tag \in TAGS \cup {CUSTOM_TAG} : sourceTag' = tag
    /\ sent' = None
    /\ ev' = "edit"
    /\ UNCHANGED <<view, life, error, loading, calls, settled, statusVars, pageVars,
                   json, jsonError, result, filePath, customTag>>

\* the custom tag input, rendered when the custom button is selected
SetCustomTag ==
    /\ life = "active"
    /\ sourceTag = CUSTOM_TAG
    /\ \E value \in InputTexts : customTag' = value
    /\ sent' = None
    /\ ev' = "edit"
    /\ UNCHANGED <<view, life, error, loading, calls, settled, statusVars, pageVars,
                   json, jsonError, result, filePath, sourceTag>>

\* mutant: a new submission leaves the previous outcome in place
DocsHandleIngest_KeepsOutcome ==
    IF Trim(filePath) = <<>> \/ Trim(activeTag) = <<>>
    THEN /\ sent' = None
         /\ UNCHANGED <<loading, result, error, calls>>
    ELSE /\ loading' = TRUE
         /\ sent' = Some(DocumentBody(Trim(filePath), Trim(activeTag)))
         /\ calls' = Append(calls, [type |-> "document", f |-> Pending])
         /\ UNCHANGED <<result, error>>

\* DocsPage.handleIngest(), up to its await
DocsHandleIngest ==
    IF Trim(filePath) = <<>> \/ Trim(activeTag) = <<>>
    THEN /\ sent' = None
         /\ UNCHANGED <<loading, result, error, calls>>
    ELSE /\ loading' = TRUE
         /\ result' = None
         /\ error' = None
         /\ sent' = Some(DocumentBody(Trim(filePath), Trim(activeTag)))
         /\ calls' = Append(calls, [type |-> "document", f |-> Pending])

\* mutant: the button looks at the raw texts
canSubmit_NoTrim == Len(filePath) > 0 /\ Len(activeTag) > 0 /\ ~loading

\* const canSubmit = filePath.trim().length > 0 && activeTag.trim().length > 0 && !loading
canSubmit == Len(Trim(filePath)) > 0 /\ Len(Trim(activeTag)) > 0 /\ ~loading

\* the submit button: disabled={!canSubmit}
DocSubmitEnabled == life = "active" /\ ~(~canSubmit)

\* a click on the submit button, which runs handleIngest()
ClickDocIngest ==
    /\ DocSubmitEnabled
    /\ Len(calls) < MaxPosts
    /\ DocsHandleIngest
    /\ ev' = "submit"
    /\ UNCHANGED <<view, life, settled, statusVars, pageVars, json, jsonError, docVars>>

\* the POST settles and DocsPage.handleIngest() resumes: setResult(r), or
\* setError(e.message), then setLoading(false)
DocIngestSettles ==
    \E r \in DOMAIN calls : \E o \in ingestDocument(r) : IngestAnswered(r, o)

DocsTeardown ==
    /\ life = "active"
    /\ life' = "torn"
    /\ sent' = None
    /\ ev' = "teardown"
    /\ UNCHANGED <<view, error, loading, calls, settled, statusVars, pageVars,
                   json, jsonError, result, docVars>>

NextDocs ==
    \/ SetFilePath
    \/ SelectTag
    \/ SetCustomTag
    \/ ClickDocIngest
    \/ DocIngestSettles
    \/ DocsTeardown

SpecDocs == InitDocs /\ [][NextDocs]_vars

----------------------------------------------------------------------------
(* Properties of the document form *)

\* C12 as stated, for the payload: a submit with both values non-empty
\* appends a POST of type "document" carrying the file path and the
\* effective tag as they stand in the form.
C12_PostCarriesFormValues ==
    [][ev' = "submit"
         => /\ Len(calls') = Len(calls) + 1
            /\ sent' = Some([type |-> "document", file_path |-> filePath,
                             source_tag |-> activeTag])]_vars

\* C12 amended: while the trimmed file path or the trimmed effective tag is
\* empty the submit button is disabled and no step issues a POST; when both
\* are non-empty and no POST is in flight the button is enabled, and a submit
\* appends exactly one POST of type "document" carrying the trimmed file
\* path and the trimmed effective tag.
C12_DocumentGating ==
    /\ [](life = "active" /\ (Trim(filePath) = <<>> \/ Trim(activeTag) = <<>>)
             => ~DocSubmitEnabled)
    /\ [](life = "active" /\ Trim(filePath) # <<>> /\ Trim(activeTag) # <<>> /\ ~loading
             => DocSubmitEnabled)
    /\ [][/\ (Trim(filePath) = <<>> \/ Trim(activeTag) = <<>>) => Len(calls') = Len(calls)
          /\ ev' = "submit"
                => /\ Len(calls') = Len(calls) + 1
                   /\ SubSeq(calls', 1, Len(calls)) = calls
                   /\ calls'[Len(calls')] = [type |-> "document", f |-> Pending]
                   /\ sent' = Some([type |-> "document",
                                    file_path |-> Trim(filePath),
                                    source_tag |-> Trim(activeTag)])]_vars

\* a blank-padded path and a blank-padded custom tag were submitted trimmed
C12_Witness ==
    /\ view = "docs"
    /\ ev = "submit"
    /\ filePath = <<" ", "a">>
    /\ sourceTag = CUSTOM_TAG
    /\ customTag = <<"a", " ">>
    /\ sent = Some([type |-> "document", file_path |-> <<"a">>, source_tag |-> <<"a">>])

\* the custom tag is blank: the button is disabled over a non-empty path
C12_WitnessBlankTag ==
    /\ view = "docs"
    /\ life = "active"
    /\ filePath = <<"a">>
    /\ sourceTag = CUSTOM_TAG
    /\ customTag = <<" ">>
    /\ ~loading
    /\ ~DocSubmitEnabled

\* C38: in the mounted document form the tag shown in the success panel is
\* the tag sent in the POST that produced the displayed result; the sent tag
\* of a result is fixed, so the tag shown does not change as long as the same
\* result is displayed, whatever is edited.
C38_ShownTagIsSentTag ==
    [][(view = "docs" /\ life = "active" /\ result # None /\ result' = result)
         => activeTag' = activeTag]_vars

----------------------------------------------------------------------------
(* The two ingestion forms together: one of them is mounted *)

InitForms == InitCatalog \/ InitDocs

NextForms ==
    \/ view = "catalog" /\ NextCatalog
    \/ view = "docs" /\ NextDocs

SpecForms == InitForms /\ [][NextForms]_vars

\* the transport answers or fails every request
TransportAnswers == WF_vars(IngestSettles) /\ WF_vars(DocIngestSettles)

SpecFormsAnswered == SpecForms /\ TransportAnswers

\* the ingestion POSTs issued and not yet completed
InFlight == {r \in DOMAIN calls : calls[r].f = Pending}

\* idle -> submitting -> {success | failed}
Phase ==
    IF loading THEN "submitting"
    ELSE IF result # None THEN "success"
    ELSE IF error # None THEN "failed"
    ELSE "idle"

\* C13: in every state of the catalog form and of the document form, at most
\* one ingestion POST has been issued and not yet completed.
C13_AtMostOneInFlight == Cardinality(InFlight) <= 1

\* the second POST is in flight, the first has completed, and the user has
\* edited the form meanwhile
C13_Witness ==
    /\ view = "docs"
    /\ life = "active"
    /\ ev = "edit"
    /\ Len(calls) = 2
    /\ calls[1].f.st = "rejected"
    /\ calls[2].f = Pending
    /\ Trim(filePath) # <<>> /\ Trim(activeTag) # <<>>

\* the same in the catalog form, over a text that would pass validation
C13_WitnessCatalog ==
    /\ view = "catalog"
    /\ life = "active"
    /\ ev = "edit"
    /\ Len(calls) = 2
    /\ calls[2].f = Pending
    /\ WouldPost

\* C14: in every state of either form the success result and the failure
\* message are not both present, and every submit that issues a POST clears
\* both before the outcome of that POST is stored: they stay absent while
\* the POST is in flight.
C14_OutcomeExclusive ==
    /\ [](~(result # None /\ error # None))
    /\ [](life = "active" /\ InFlight # {} => result = None /\ error = None)
    /\ [][(ev' = "submit" /\ Len(calls') = Len(calls) + 1)
            => result' = None /\ error' = None]_vars

\* a submission succeeded after one that had failed: only the result is held
C14_Witness ==
    /\ life = "active"
    /\ Len(calls) = 2
    /\ calls[1].f.st = "rejected"
    /\ calls[2].f.st = "fulfilled"
    /\ result # None
    /\ error = None

\* a resubmission over a held failure message: the message is cleared
C14_WitnessCleared ==
    /\ life = "active"
    /\ ev = "submit"
    /\ Len(calls) = 2
    /\ calls[1].f.st = "rejected"
    /\ error = None /\ result = None

\* C15: a form moves only along idle -> submitting, submitting -> success,
\* submitting -> failed, success -> submitting and failed -> submitting; and,
\* the transport answering or failing every request, a mounted form that is
\* submitting gets to success or failed with the loading flag reset, unless
\* it is unmounted first.
C15_SubmitStateMachine ==
    /\ [][\/ Phase' = Phase
          \/ <<Phase, Phase'>> \in {<<"idle", "submitting">>,
                                    <<"submitting", "success">>,
                                    <<"submitting", "failed">>,
                                    <<"success", "submitting">>,
                                    <<"failed", "submitting">>}]_vars
    /\ (life = "active" /\ Phase = "submitting")
          ~> (life = "torn" \/ (~loading /\ Phase \in {"success", "failed"}))

\* a form that failed was resubmitted and then succeeded
C15_Witness ==
    /\ life = "active"
    /\ Len(settled) = 2
    /\ calls[1].f.st = "rejected"
    /\ Phase = "success"
    /\ view = "docs"

\* C16: when the POST of a mounted form is answered with a non-2xx status,
\* the form ends in failed (loading reset, no result) with the message equal
\* to the body's detail when the body carries one and to "HTTP <status>"
\* otherwise, a body that is not parseable included.
C16_HttpFailureMessage ==
    [][\A r \in DOMAIN calls : \A a \in IngestAnswers(r) :
          (life = "active" /\ a.kind = "http" /\ a.status \notin 200..299
             /\ IngestAnswered(r, ingest(a)))
          => /\ ~loading'
             /\ result' = None
             /\ error' = IF Val(a.body).detail # None
                         THEN Val(a.body).detail
                         ELSE Some("HTTP " \o ToString(a.status))]_vars

\* C17: when the POST of a mounted form gets no response at all, the form
\* ends in failed with one fixed message: the step taken is the same
\* whichever transport error fetch() rejected with.
C17_TransportFailureMessage ==
    [][\A r \in DOMAIN calls : \A a, other \in IngestAnswers(r) :
          (life = "active" /\ a.kind = "transport" /\ other.kind = "transport"
             /\ IngestAnswered(r, ingest(a)))
          => /\ ~loading'
             /\ result' = None
             /\ error' # None
             /\ IngestAnswered(r, ingest(other))]_vars

----------------------------------------------------------------------------
(* CSV export of the leads page: exportCSV.  A text is a sequence of      *)
(* characters; a word without quote, comma or newline is one element.     *)

MaxLeads == 2        \* leads in the list handed to exportCSV
MaxCellLen == 1      \* characters of the free text of a lead

QUOTE == "\""
COMMA == ","
NEWLINE == "\n"

CellChars == {QUOTE, COMMA, NEWLINE}

\* the free texts a lead may carry
CellTexts == UNION {[1..n -> CellChars] : n \in 0..MaxCellLen}

Stages == {"new", "contacted", "qualified", "converted", "lost"}

STAGE_LABELS ==
    [new |-> "Nuevo", contacted |-> "Contactado", qualified |-> "Calificado",
     converted |-> "Convertido", lost |-> "Perdido"]

\* a lead of each stage, carrying the free text t in some of its text
\* fields; the optional fields are absent, empty or present by turns;
\* created_at is an hour of 1 May 2024 with its UTC offset
Lead(stage, t) ==
    CASE stage = "new" ->
           [id |-> <<"1">>, phone |-> t, contact_name |-> None, email |-> None,
            interest |-> None, stage |-> stage,
            created_at |-> [hour |-> 8, offset |-> 0], notes |-> None]
      [] stage = "contacted" ->
           [id |-> <<"2">>, phone |-> <<"+34600">>, contact_name |-> Some(t),
            email |-> None, interest |-> None, stage |-> stage,
            created_at |-> [hour |-> 10, offset |-> 2], notes |-> Some(<<>>)]
      [] stage = "qualified" ->
           [id |-> <<"3">>, phone |-> <<"+34600">>, contact_name |-> Some(<<"Ana">>),
            email |-> Some(t), interest |-> Some(t), stage |-> stage,
            created_at |-> [hour |-> 23, offset |-> 0], notes |-> None]
      [] stage = "converted" ->
           [id |-> <<"4">>, phone |-> <<"+34600">>, contact_name |-> None,
            email |-> Some(<<"a@b.c">>), interest |-> None, stage |-> stage,
            created_at |-> [hour |-> 1, offset |-> 0 - 5], notes |-> Some(t)]
      [] stage = "lost" ->
           [id |-> <<"5">> \o t, phone |-> t, contact_name |-> Some(t),
            email |-> None, interest |-> Some(<<"plan">>), stage |-> stage,
            created_at |-> [hour |-> 12, offset |-> 0], notes |-> Some(t)]

\* the stages in the order of the identifiers of their sample leads
StageOrder == <<"new", "contacted", "qualified", "converted", "lost">>

\* the lists of at most MaxLeads sample leads, each with a free text of its
\* own, no lead twice, in the order of their identifiers
LeadLists ==
    UNION {{[k \in 1..n |-> Lead(StageOrder[pick[k]], texts[k])] :
              pick \in {f \in [1..n -> DOMAIN StageOrder] :
                          \A j \in 1..n, k \in 1..n : j < k => f[j] < f[k]},
              texts \in [1..n -> CellTexts]} : n \in 0..MaxLeads}

\* new Date(s).getTime(), in hours since 1 May 2024 00:00 UTC
DateParse(s) == s.hour - s.offset

\* Date.prototype.toISOString()
toISOString(h) ==
    "2024-05-01T" \o (IF h < 10 THEN "0" ELSE "") \o ToString(h) \o ":00:00.000Z"

\* v ?? ''
OrEmpty(v) == IF v = None THEN <<>> ELSE Val(v)

HEADERS ==
    <<<<"ID">>, <<"Teléfono">>, <<"Nombre">>, <<"Email">>, <<"Interés">>, <<"Etapa">>,
      <<"Creado">>, <<"Notas">>>>

\* mutant: the stage key is exported
LeadRow_StageKey(l) ==
    <<l.id, l.phone, OrEmpty(l.contact_name), OrEmpty(l.email), OrEmpty(l.interest),
      <<l.stage>>, <<toISOString(DateParse(l.created_at))>>, OrEmpty(l.notes)>>

\* the array built for one lead by leads.map(l => [...])
LeadRow(l) ==
    <<l.id, l.phone, OrEmpty(l.contact_name), OrEmpty(l.email), OrEmpty(l.interest),
      <<STAGE_LABELS[l.stage]>>, <<toISOString(DateParse(l.created_at))>>,
      OrEmpty(l.notes)>>

\* mutant: quotes are left as they are
Escape_None(v) == v

\* String(v).replace(/"/g, '""')
RECURSIVE Escape(_)
Escape(v) ==
    IF v = <<>> THEN <<>>
    ELSE (IF Head(v) = QUOTE THEN <<QUOTE, QUOTE>> ELSE <<Head(v)>>) \o Escape(Tail(v))

\* `"${...}"`
Quoted(v) == <<QUOTE>> \o Escape(v) \o <<QUOTE>>

\* Array.prototype.join(sep) over texts
RECURSIVE Join(_, _)
Join(texts, sep) ==
    IF texts = <<>> THEN <<>>
    ELSE IF Len(texts) = 1 THEN texts[1]
    ELSE texts[1] \o <<sep>> \o Join(Tail(texts), sep)

\* r.map(v => `"..."`).join(',')
CsvLine(r) == Join([k \in DOMAIN r |-> Quoted(r[k])], COMMA)

\* mutant: every record is terminated by a newline
exportCSV_TrailingNewline(leads) ==
    LET rows == <<HEADERS>> \o [k \in DOMAIN leads |-> LeadRow(leads[k])]
    IN Join([k \in DOMAIN rows |-> CsvLine(rows[k])], NEWLINE) \o <<NEWLINE>>

\* the text of the blob built by exportCSV(leads)
exportCSV(leads) ==
    LET rows == <<HEADERS>> \o [k \in DOMAIN leads |-> LeadRow(leads[k])]
    IN Join([k \in DOMAIN rows |-> CsvLine(rows[k])], NEWLINE)

InitExport ==
    /\ view = "leads"
    /\ life = "active"
    /\ \E leads \in LeadLists : items = [req |-> 0, list |-> leads]
    /\ \E rest \in {0, LEADS_PAGE_SIZE} : total = [req |-> 0, n |-> Len(items.list) + rest]
    /\ page = 1
    /\ csv = None
    /\ thrown = None
    /\ loading = FALSE
    /\ error = None
    /\ calls = <<>>
    /\ settled = <<>>
    /\ ev = "render"
    /\ health = None /\ stats = None /\ lastRefresh = None /\ timer = FALSE /\ now = 0
    /\ json = <<>> /\ jsonError = None /\ result = None
    /\ filePath = <<>> /\ sourceTag = <<"manual">> /\ customTag = <<>> /\ sent = None

\* the export button: disabled={items.length === 0}
ExportEnabled == life = "active" /\ ~(Len(items.list) = 0)

\* onClick={() => exportCSV(items)}
ClickExport ==
    /\ ExportEnabled
    /\ csv' = Some(exportCSV(items.list))
    /\ ev' = "export"
    /\ UNCHANGED <<view, life, error, loading, calls, settled, items, total, page, thrown,
                   statusVars, formVars>>

NextExport == ClickExport

SpecExport == InitExport /\ [][NextExport]_vars

----------------------------------------------------------------------------
(* A standard CSV reader (RFC 4180): fields separated by commas, rows by   *)
(* newlines; a field that starts with a quote runs to the closing quote,   *)
(* a doubled quote inside it standing for one quote.                       *)

CsvFail == [ok |-> FALSE, rows |-> <<>>, quoted |-> FALSE]

\* the rest of a quoted field from position i on, acc being the text read:
\* the text and the position after the closing quote (0 if there is none)
RECURSIVE ReadQuoted(_, _, _)
ReadQuoted(s, i, acc) ==
    IF i > Len(s) THEN [text |-> acc, next |-> 0]
    ELSE IF s[i] # QUOTE THEN ReadQuoted(s, i + 1, Append(acc, s[i]))
    ELSE IF i < Len(s) /\ s[i + 1] = QUOTE THEN ReadQuoted(s, i + 2, Append(acc, QUOTE))
    ELSE [text |-> acc, next |-> i + 1]

\* the rest of an unquoted field from position i on: up to a comma, a
\* newline or the end (0 if a quote turns up inside it)
RECURSIVE ReadBare(_, _, _)
ReadBare(s, i, acc) ==
    IF i > Len(s) \/ s[i] \in {COMMA, NEWLINE} THEN [text |-> acc, next |-> i]
    ELSE IF s[i] = QUOTE THEN [text |-> acc, next |-> 0]
    ELSE ReadBare(s, i + 1, Append(acc, s[i]))

\* reads the field at position i, then what separates it from the next one;
\* row holds the fields of the row being read, rows the rows read, quoted
\* whether every field so far was quoted
RECURSIVE CsvRead(_, _, _, _, _)
CsvRead(s, i, row, rows, quoted) ==
    LET isQuoted == i <= Len(s) /\ s[i] = QUOTE
        f == IF isQuoted THEN ReadQuoted(s, i + 1, <<>>) ELSE ReadBare(s, i, <<>>)
    IN IF f.next = 0 THEN CsvFail
       ELSE IF f.next > Len(s)
       THEN [ok |-> TRUE, rows |-> Append(rows, Append(row, f.text)),
             quoted |-> quoted /\ isQuoted]
       ELSE IF s[f.next] = COMMA
       THEN CsvRead(s, f.next + 1, Append(row, f.text), rows, quoted /\ isQuoted)
       ELSE IF s[f.next] = NEWLINE
       THEN IF f.next = Len(s)
            THEN [ok |-> TRUE, rows |-> Append(rows, Append(row, f.text)),
                  quoted |-> quoted /\ isQuoted]
            ELSE CsvRead(s, f.next + 1, <<>>, Append(rows, Append(row, f.text)),
                         quoted /\ isQuoted)
       ELSE CsvFail

\* the rows of a text, each the sequence of the texts of its fields, and
\* whether every field was quoted
ParseCsv(s) ==
    IF s = <<>> THEN [ok |-> TRUE, rows |-> <<>>, quoted |-> TRUE]
    ELSE CsvRead(s, 1, <<>>, <<>>, TRUE)

----------------------------------------------------------------------------
(* Properties of the CSV export *)

\* C18 as stated: the rows read back from the exported text are the rows of
\* the leads, in order.
C18_RowsAreLeadRows ==
    csv # None
    => ParseCsv(Val(csv)).rows = [k \in DOMAIN items.list |-> LeadRow(items.list[k])]

\* C18 amended: for every list of leads (the empty one included) the text
\* built by exportCSV is well-formed CSV, and the rows read back from it are
\* the header row followed by the rows of the leads in order, every field
\* exactly as exported: absent optionals empty, quotes, commas and newlines
\* inside a field preserved.  The text handed to the browser is that text.
C18_CsvRoundTrip ==
    /\ ParseCsv(exportCSV(items.list))
          = [ok |-> TRUE,
             rows |-> <<HEADERS>> \o [k \in DOMAIN items.list |-> LeadRow(items.list[k])],
             quoted |-> TRUE]
    /\ csv # None => csv = Some(exportCSV(items.list))

\* two leads were exported, one with a lone quote as notes and one with a
\* newline in its phone
C18_Witness ==
    /\ csv # None
    /\ Len(items.list) = 2
    /\ items.list[1].notes = Some(<<QUOTE>>)
    /\ items.list[2].phone = <<NEWLINE>>
    /\ Len(ParseCsv(Val(csv)).rows) = 3

\* the row a lead must be exported as: eight fields in the order identifier,
\* phone, display name, email, interest, stage label, creation timestamp,
\* notes, an absent optional being the empty text
ExpectedRow(l) ==
    <<l.id,
      l.phone,
      IF l.contact_name = None THEN <<>> ELSE Val(l.contact_name),
      IF l.email = None THEN <<>> ELSE Val(l.email),
      IF l.interest = None THEN <<>> ELSE Val(l.interest),
      CASE l.stage = "new" -> <<"Nuevo">>
        [] l.stage = "contacted" -> <<"Contactado">>
        [] l.stage = "qualified" -> <<"Calificado">>
        [] l.stage = "converted" -> <<"Convertido">>
        [] l.stage = "lost" -> <<"Perdido">>,
      <<toISOString(DateParse(l.created_at))>>,
      IF l.notes = None THEN <<>> ELSE Val(l.notes)>>

\* C19: every lead row of the exported text has exactly eight fields, in the
\* order identifier, phone, display name, email, interest, stage label,
\* creation timestamp, notes; an absent optional is the empty text; the
\* stage field is the label of the stage and not its key; and every field of
\* the text is wrapped in double quotes.
C19_RowShape ==
    csv # None
    => /\ LET read == ParseCsv(Val(csv))
          IN /\ read.ok
             /\ read.quoted
             /\ Tail(read.rows)
                   = [k \in DOMAIN items.list |-> ExpectedRow(items.list[k])]
       /\ \A k \in DOMAIN items.list :
             /\ Len(ExpectedRow(items.list[k])) = 8
             /\ ExpectedRow(items.list[k])[6] # <<items.list[k].stage>>

\* a converted lead without display name and interest was exported
C19_Witness ==
    /\ csv # None
    /\ \E k \in DOMAIN items.list :
          /\ items.list[k].stage = "converted"
          /\ items.list[k].contact_name = None
          /\ items.list[k].notes = Some(<<COMMA>>)
          /\ ParseCsv(Val(csv)).rows[k + 1]
                = <<<<"4">>, <<"+34600">>, <<>>, <<"a@b.c">>, <<>>, <<"Convertido">>,
                    <<"2024-05-01T06:00:00.000Z">>, <<COMMA>>>>

\* the records a list of leads must be exported as: the header record, then
\* one record per lead in the order of the list
ExpectedRecords(leads) ==
    <<CsvLine(HEADERS)>> \o [k \in DOMAIN leads |-> CsvLine(ExpectedRow(leads[k]))]

\* the position in the text of the first character of record k, the records
\* before it being followed by one separator each
RECURSIVE RecordStart(_, _)
RecordStart(recs, k) ==
    IF k = 1 THEN 1 ELSE RecordStart(recs, k - 1) + Len(recs[k - 1]) + 1

\* text is made of the records recs, in order, with one newline between
\* two consecutive records and nothing after the last one
MadeOfRecords(text, recs) ==
    /\ Len(text) = RecordStart(recs, Len(recs)) + Len(recs[Len(recs)]) - 1
    /\ \A k \in DOMAIN recs :
          /\ SubSeq(text, RecordStart(recs, k), RecordStart(recs, k) + Len(recs[k]) - 1)
                = recs[k]
          /\ k < Len(recs) => text[RecordStart(recs, k) + Len(recs[k])] = NEWLINE

\* C39: for every list of n leads the exported text is the header record
\* followed by the n lead records in the order of the list, one newline
\* between consecutive records and none after the last; a reader finds n + 1
\* records in it.  The export button is enabled only when the held page
\* has at least one item, and the text exported is the one of the held
\* items, whatever total says (text is the exported text once there is one).
C39_RecordStructure ==
    LET text == IF csv = None THEN exportCSV(items.list) ELSE Val(csv)
    IN /\ MadeOfRecords(text, ExpectedRecords(items.list))
       /\ Len(ParseCsv(text).rows) = Len(items.list) + 1
       /\ ExportEnabled => Len(items.list) >= 1
       /\ csv # None => Len(items.list) >= 1

\* two leads were exported while total counts a further page of them; the
\* second lead has a newline inside a field, and the text ends with the
\* closing quote of its last field
C39_Witness ==
    /\ csv # None
    /\ Len(items.list) = 2
    /\ total.n = 2 + LEADS_PAGE_SIZE
    /\ items.list[2].notes = Some(<<NEWLINE>>)
    /\ Val(csv)[Len(Val(csv))] = QUOTE
    /\ Len(ParseCsv(Val(csv)).rows) = 3

====
